---- MODULE Spec2Model ----
(***************************************************************************)
(* git-cal: one run of GitCalendar::display (src/src/main.rs).             *)
(*                                                                         *)
(* A local date-time is an integer: the number of seconds since            *)
(* 1970-01-01 00:00:00 local time.  Local is taken to be a zone with a     *)
(* fixed offset from UTC (no daylight-saving transitions), so that a       *)
(* chrono Duration between two local date-times is the difference of the   *)
(* two integers.  A calendar day is its day number (1970-01-01 is day 0).  *)
(*                                                                         *)
(* The program reads the clock (Local::now()) four times: lines 22 and 66  *)
(* inside count_commits_per_day, lines 22 and 126 inside display.  The     *)
(* clock is the variable now; the action Tick lets local midnight pass     *)
(* between two reads.                                                      *)
(***************************************************************************)
EXTENDS Integers, Sequences, FiniteSets

\* ------------------------------------------------------------------ bounds
\* first calendar year of the dates the program is run on
FirstYear == 2023
\* number of calendar years of run dates (FirstYear .. FirstYear+NumYears-1)
NumYears == 2
\* midnights that may pass during one run
MaxTicks == 1
\* timestamps git log returns, at most
MaxCommits == 2
\* run dates of the specification with a non-empty git log
LogDays == 7
\* normalize_commits as a pure function: length and value of the buckets
MaxLen == 3
MaxCount == 8

\* ------------------------------------------------ calendar (chrono's dates)
SecsPerDay == 24 * 60 * 60

IsLeap(y) == (y % 4 = 0 /\ y % 100 # 0) \/ y % 400 = 0

DaysInMonth(y, m) ==
    IF m = 2 THEN (IF IsLeap(y) THEN 29 ELSE 28)
    ELSE IF m \in {4, 6, 9, 11} THEN 30 ELSE 31

\* leap years in 1 .. y-1
LeapsBefore(y) == ((y - 1) \div 4) - ((y - 1) \div 100) + ((y - 1) \div 400)

\* day number of 1 January of year y
DaysBeforeYear(y) == 365 * (y - 1970) + LeapsBefore(y) - LeapsBefore(1970)

RECURSIVE DaysBeforeMonth(_, _)
DaysBeforeMonth(y, m) ==
    IF m = 1 THEN 0 ELSE DaysBeforeMonth(y, m - 1) + DaysInMonth(y, m - 1)

\* Local.ymd(y, m, d) panics unless the date exists
ValidYmd(y, m, d) == m \in 1..12 /\ d \in 1..DaysInMonth(y, m)

\* day number of the date y-m-d
YmdToDay(y, m, d) == DaysBeforeYear(y) + DaysBeforeMonth(y, m) + (d - 1)

\* DateTime::year(), month(), day() of a day number
YearOf(n) ==
    CHOOSE y \in (1970 + n \div 366)..(1970 + n \div 365) :
        DaysBeforeYear(y) <= n /\ n < DaysBeforeYear(y + 1)

MonthOf(n) ==
    LET y == YearOf(n)
        doy == n - DaysBeforeYear(y)
    IN  CHOOSE m \in 1..12 :
            DaysBeforeMonth(y, m) <= doy
            /\ doy < DaysBeforeMonth(y, m) + DaysInMonth(y, m)

DayOfMonth(n) ==
    LET y == YearOf(n)
    IN  n - DaysBeforeYear(y) - DaysBeforeMonth(y, MonthOf(n)) + 1

\* chrono::Weekday as i64: Mon = 0, ..., Sun = 6 (1970-01-01 was a Thursday)
WeekdayNum(n) == (n + 3) % 7

\* weekday index of the Sunday-first convention: Sun = 0, ..., Sat = 6
SundayIndex(n) == (n + 4) % 7

\* the calendar day of a local date-time, and its second of the day
DateOf(t) == t \div SecsPerDay
SecOf(t) == t % SecsPerDay

\* Local.ymd(..).and_hms(h, m, s) on day number n
AndHms(n, h, m, s) == n * SecsPerDay + (h * 60 + m) * 60 + s

\* Duration::num_days(): whole days of a duration in seconds, rounded toward 0
NumDays(secs) ==
    IF secs >= 0 THEN secs \div SecsPerDay ELSE -((-secs) \div SecsPerDay)

\* ------------------------------------------------------------------- state
VARIABLES
    now,          \* the local clock: day number of the current local date
    ticks,        \* midnights passed since the run began
    git_log,      \* the epochs `git log --pretty=format:%at` prints, as local date-times
    pc,           \* position of the run inside display()
    fault,        \* why the run panicked or failed ("none" while it has not)
    reads,        \* the local dates the reads of Local::now() returned, in order
    commit_days,  \* display: commit_days (line 121)
    c_first,      \* count_commits_per_day: first (line 65)
    c_last,       \* count_commits_per_day: last (line 67)
    c_len,        \* count_commits_per_day: len (line 70)
    commits,      \* display: commits (line 122), index k of the Vec is commits[k+1]
    freqs,        \* display: freqs (line 123), index k of the Vec is freqs[k+1]
    d_first,      \* display: first (line 125)
    days,         \* display: days (line 129)
    weeks,        \* display: weeks (line 130)
    month_week,   \* display: month_week (line 142)
    pad,          \* display: 4_usize - month_week (line 147)
    header,       \* the month row printed by lines 139-155
    rows,         \* the squares printed by lines 157-178, one sequence per weekday row
    skipped       \* the cells <<weekday, week>> the loop skipped at line 171

vars == <<now, ticks, git_log, pc, fault, reads, commit_days, c_first, c_last,
          c_len, commits, freqs, d_first, days, weeks, month_week, pad, header,
          rows, skipped>>

\* --------------------------------------------------------------- first_day
\* line 24: the date (today.year() - 1, today.month(), today.day()) does not exist
FirstDayPanics(today) ==
    ~ValidYmd(YearOf(today) - 1, MonthOf(today), DayOfMonth(today))

\* lines 23-25
OneYearAgo(today) ==
    AndHms(YmdToDay(YearOf(today) - 1, MonthOf(today), DayOfMonth(today)), 0, 0, 0)

\* first_day with the "+ 1" of line 26 left out
first_day_without_plus_one(today) ==
    LET one_year_ago == OneYearAgo(today)
    IN  one_year_ago - WeekdayNum(DateOf(one_year_ago)) * SecsPerDay

\* line 26, for the clock reading today (a day number)
first_day(today) ==
    LET one_year_ago == OneYearAgo(today)
    IN  one_year_ago - (WeekdayNum(DateOf(one_year_ago)) + 1) * SecsPerDay

\* ------------------------------------------------- count_commits_per_day
\* the loop body skipped the timestamp (continue, line 76)
Skipped == -1

\* lines 74-79: the Vec index a timestamp increments, or Skipped
BucketIndex(last, len, day) ==
    LET diff == NumDays(last - day)
    IN  IF diff >= len THEN Skipped ELSE len - diff

\* lines 73-80 from the i-th timestamp on; indexing past the Vec panics
RECURSIVE CountLoop(_, _, _, _, _)
CountLoop(ret, cds, last, len, i) ==
    IF i > Len(cds) THEN [ret |-> ret, fault |-> "none"]
    ELSE LET k == BucketIndex(last, len, cds[i])
         IN  IF k = Skipped THEN CountLoop(ret, cds, last, len, i + 1)
             ELSE IF k >= Len(ret) THEN [ret |-> ret, fault |-> "index out of bounds"]
             ELSE CountLoop([ret EXCEPT ![k + 1] = @ + 1], cds, last, len, i + 1)

\* count_commits_per_day allocating len buckets instead of len + 1 (line 72)
count_commits_per_day_len_buckets(cds, first, today) ==
    LET last == AndHms(today, 23, 59, 59)
        len == NumDays(last - first)
    IN  CountLoop([k \in 1..len |-> 0], cds, last, len, 1)

\* lines 67-82, given first (line 65) and the clock reading today (line 66)
count_commits_per_day(cds, first, today) ==
    LET last == AndHms(today, 23, 59, 59)
        len == NumDays(last - first)
    IN  CountLoop([k \in 1..(len + 1) |-> 0], cds, last, len, 1)

\* ----------------------------------------------------- normalize_commits
\* (num as f64) / (max as f64): an exact quotient, NaN for 0/0, infinite for x/0.
\* Both operands are i32 values, so the rounded f64 quotient compares with
\* 0.0, 0.25, 0.5 and 0.75 exactly as the exact quotient does.
FDiv(num, max) ==
    IF max # 0 THEN [kind |-> "finite", n |-> num, d |-> max]
    ELSE IF num = 0 THEN [kind |-> "nan", n |-> 0, d |-> 0]
    ELSE [kind |-> "inf", n |-> num, d |-> 0]

\* val == 0.0 (false for NaN)
FIsZero(val) == val.kind = "finite" /\ val.n = 0

\* val < p/q for q > 0 (false for NaN)
FLess(val, p, q) ==
    \/ val.kind = "finite" /\ val.d > 0 /\ val.n * q < p * val.d
    \/ val.kind = "finite" /\ val.d < 0 /\ val.n * q > p * val.d
    \/ val.kind = "inf" /\ val.n < 0

\* Classify with the cut at a quarter taken as val <= 0.25 (line 93)
Classify_quarter_inclusive(num, max) ==
    LET val == FDiv(num, max)
    IN  IF FIsZero(val) THEN "No"
        ELSE IF val.kind = "finite" /\ val.n * 4 <= val.d THEN "Low"
        ELSE IF FLess(val, 1, 2) THEN "Mid"
        ELSE IF FLess(val, 3, 4) THEN "High"
        ELSE "VeryHigh"

\* lines 90-101
Classify(num, max) ==
    LET val == FDiv(num, max)
    IN  IF FIsZero(val) THEN "No"
        ELSE IF FLess(val, 1, 4) THEN "Low"
        ELSE IF FLess(val, 1, 2) THEN "Mid"
        ELSE IF FLess(val, 3, 4) THEN "High"
        ELSE "VeryHigh"

\* line 86: commits.iter().max()
MaxOf(s) == CHOOSE x \in {s[i] : i \in DOMAIN s} : \A i \in DOMAIN s : s[i] <= x

\* lines 86-103 (the Vec is not empty)
normalize_commits(cs) ==
    LET max == MaxOf(cs)
    IN  [i \in DOMAIN cs |-> Classify(cs[i], max)]

\* ------------------------------------------------------------------ display
\* lines 107-113
Color(freq) ==
    CASE freq = "No" -> 237
      [] freq = "Low" -> 139
      [] freq = "Mid" -> 40
      [] freq = "High" -> 190
      [] freq = "VeryHigh" -> 1

\* lines 136-138, months[k] is Months[k+1]
Months == <<"Jan", "Feb", "Mar", "Apr", "May", "Jun",
            "Jul", "Aug", "Sep", "Oct", "Nov", "Dec">>

\* lines 130-134 and 142-146: n / 7 rounded up
CeilDiv7(n) == IF n % 7 = 0 THEN n \div 7 ELSE n \div 7 + 1

\* lines 149-153
MonthStr(first) == [i \in 1..12 |-> Months[((MonthOf(DateOf(first)) + (i - 1)) % 12) + 1]]

\* lines 168-175 for one weekday: the squares printed, in order
GridRow(weekday, nweeks, fs) ==
    LET cell(w) == [week |-> w - 1, index |-> weekday + (w - 1) * 7]
        all == [w \in 1..nweeks |-> cell(w)]
        printed == SelectSeq(all, LAMBDA c : c.index < Len(fs))
    IN  [j \in 1..Len(printed) |->
            [week |-> printed[j].week, index |-> printed[j].index,
             color |-> Color(fs[printed[j].index + 1])]]

\* line 170: the cells the loop skips
GridSkipped(nweeks, fs) ==
    {<<wd, w>> \in (0..6) \X (0..(nweeks - 1)) : wd + w * 7 >= Len(fs)}

\* ------------------------------------------------------------------ inputs
\* the local dates a run may start on
RunDates == YmdToDay(FirstYear, 1, 1)..(YmdToDay(FirstYear + NumYears, 1, 1) - 1)

\* a few run dates around the end of February of the second year
LogDates == LET d == YmdToDay(FirstYear + 1, 2, 25) IN d..(d + LogDays - 1)

\* author dates of commits, for a run started on day d: around both ends of the window
LogTimes(d) ==
    LET around == IF FirstDayPanics(d) THEN {d, d + 1, d + 2}
                  ELSE LET s == DateOf(first_day(d))
                       IN  {s - 1, s, s + 1, d, d + 1, d + 2}
    IN  {AndHms(x, 0, 0, 0) : x \in around} \cup {AndHms(x, 23, 59, 59) : x \in around}

SeqsUpTo(S, n) == UNION {[1..k -> S] : k \in 0..n}

\* seconds of the day at which display reads the clock (line 126)
NowSecs == {0, 12 * 60 * 60, SecsPerDay - 1}

NoGrid == [wd \in 0..6 |-> <<>>]

\* a run begins on one of the dates; main has parsed the arguments (line 185)
Start(dates) ==
    /\ now \in dates
    /\ ticks = 0
    /\ pc = "collect"
    /\ fault = "none"
    /\ reads = <<>>
    /\ commit_days = <<>>
    /\ c_first = 0 /\ c_last = 0 /\ c_len = 0
    /\ commits = <<>> /\ freqs = <<>>
    /\ d_first = 0 /\ days = 0 /\ weeks = 0 /\ month_week = 0 /\ pad = 0
    /\ header = <<>> /\ rows = NoGrid /\ skipped = {}

\* a run with at most MaxCommits commits in the log
Init == Start(LogDates) /\ git_log \in SeqsUpTo(LogTimes(now), MaxCommits)

\* a run on any date, the log empty
InitCalendar == Start(RunDates) /\ git_log = <<>>

\* ----------------------------------------------------------------- actions
\* the positions between two reads of Local::now(): lines 22 and 66, 66 and 22,
\* 22 and 126 (a midnight before the first read is a run begun on the next date)
BetweenReads == {"count_today", "display_first", "display_last"}

\* local midnight passes
Tick ==
    /\ pc \in BetweenReads
    /\ ticks < MaxTicks
    /\ now' = now + 1
    /\ ticks' = ticks + 1
    /\ UNCHANGED <<git_log, pc, fault, reads, commit_days, c_first, c_last, c_len,
                   commits, freqs, d_first, days, weeks, month_week, pad, header,
                   rows, skipped>>

\* line 121: collect_commit_days; git failing returns Err, which display propagates
CollectCommitDays ==
    /\ pc = "collect"
    /\ \/ /\ commit_days' = git_log
          /\ pc' = "count_first"
          /\ fault' = fault
       \/ /\ commit_days' = commit_days
          /\ pc' = "error"
          /\ fault' = "git log returns error"
    /\ UNCHANGED <<now, ticks, git_log, reads, c_first, c_last, c_len, commits,
                   freqs, d_first, days, weeks, month_week, pad, header, rows,
                   skipped>>

\* line 65: first_day() called by count_commits_per_day
CountFirstDay ==
    /\ pc = "count_first"
    /\ reads' = Append(reads, now)
    /\ IF FirstDayPanics(now)
       THEN /\ pc' = "panic"
            /\ fault' = "invalid date"
            /\ c_first' = c_first
       ELSE /\ pc' = "count_today"
            /\ fault' = fault
            /\ c_first' = first_day(now)
    /\ UNCHANGED <<now, ticks, git_log, commit_days, c_last, c_len, commits, freqs,
                   d_first, days, weeks, month_week, pad, header, rows, skipped>>

\* lines 66-82: the rest of count_commits_per_day
CountCommits ==
    /\ pc = "count_today"
    /\ reads' = Append(reads, now)
    /\ c_last' = AndHms(now, 23, 59, 59)
    /\ c_len' = NumDays(c_last' - c_first)
    /\ LET r == count_commits_per_day(commit_days, c_first, now)
       IN  /\ commits' = IF r.fault = "none" THEN r.ret ELSE commits
           /\ fault' = r.fault
           /\ pc' = IF r.fault = "none" THEN "normalize" ELSE "panic"
    /\ UNCHANGED <<now, ticks, git_log, commit_days, c_first, freqs, d_first, days,
                   weeks, month_week, pad, header, rows, skipped>>

\* line 123
NormalizeCommits ==
    /\ pc = "normalize"
    /\ IF commits = <<>>
       THEN /\ pc' = "panic"
            /\ fault' = "unwrap on None"
            /\ freqs' = freqs
       ELSE /\ pc' = "display_first"
            /\ fault' = fault
            /\ freqs' = normalize_commits(commits)
    /\ UNCHANGED <<now, ticks, git_log, reads, commit_days, c_first, c_last, c_len,
                   commits, d_first, days, weeks, month_week, pad, header, rows,
                   skipped>>

\* line 125: first_day() called by display
DisplayFirstDay ==
    /\ pc = "display_first"
    /\ reads' = Append(reads, now)
    /\ IF FirstDayPanics(now)
       THEN /\ pc' = "panic"
            /\ fault' = "invalid date"
            /\ d_first' = d_first
       ELSE /\ pc' = "display_last"
            /\ fault' = fault
            /\ d_first' = first_day(now)
    /\ UNCHANGED <<now, ticks, git_log, commit_days, c_first, c_last, c_len,
                   commits, freqs, days, weeks, month_week, pad, header, rows,
                   skipped>>

\* lines 126-155: the week count and the month row.  4_usize - month_week below
\* zero panics in a build with overflow checks; without them it wraps and
\* " ".repeat() of the wrapped count panics on the allocation.
DisplayLayout ==
    /\ pc = "display_last"
    /\ reads' = Append(reads, now)
    /\ \E sec \in NowSecs :
          LET last == now * SecsPerDay + sec
          IN  days' = NumDays(last - d_first) + 1
    /\ weeks' = CeilDiv7(days')
    /\ month_week' = CeilDiv7(DayOfMonth(DateOf(d_first)))
    /\ pad' = 4 - month_week'
    /\ IF pad' < 0
       THEN /\ pc' = "panic"
            /\ \E build \in {"debug", "release"} :
                  fault' = IF build = "debug" THEN "attempt to subtract with overflow"
                           ELSE "capacity overflow"
            /\ header' = header
       ELSE /\ pc' = "grid"
            /\ fault' = fault
            /\ header' = <<Months[MonthOf(DateOf(d_first))], pad', MonthStr(d_first)>>
    /\ UNCHANGED <<now, ticks, git_log, commit_days, c_first, c_last, c_len,
                   commits, freqs, d_first, rows, skipped>>

\* lines 157-180
DisplayGrid ==
    /\ pc = "grid"
    /\ rows' = [weekday \in 0..6 |-> GridRow(weekday, weeks, freqs)]
    /\ skipped' = GridSkipped(weeks, freqs)
    /\ pc' = "done"
    /\ UNCHANGED <<now, ticks, git_log, fault, reads, commit_days, c_first, c_last,
                   c_len, commits, freqs, d_first, days, weeks, month_week, pad,
                   header>>

Next ==
    \/ Tick
    \/ CollectCommitDays
    \/ CountFirstDay
    \/ CountCommits
    \/ NormalizeCommits
    \/ DisplayFirstDay
    \/ DisplayLayout
    \/ DisplayGrid

Spec == Init /\ [][Next]_vars

SpecCalendar == InitCalendar /\ [][Next]_vars

\* normalize_commits on its own: any short Vec of small counts
InitNormalize ==
    /\ now = YmdToDay(FirstYear, 1, 1)
    /\ git_log = <<>>
    /\ ticks = 0
    /\ pc = "normalize"
    /\ fault = "none"
    /\ reads = <<>>
    /\ commit_days = <<>>
    /\ c_first = 0 /\ c_last = 0 /\ c_len = 0
    /\ commits \in SeqsUpTo(0..MaxCount, MaxLen)
    /\ freqs = <<>>
    /\ d_first = 0 /\ days = 0 /\ weeks = 0 /\ month_week = 0 /\ pad = 0
    /\ header = <<>> /\ rows = NoGrid /\ skipped = {}

SpecNormalize == InitNormalize /\ [][NormalizeCommits]_vars

\* ------------------------------------------------------------------ claims
\* count_commits_per_day has returned its Vec
Counted == commits # <<>>

\* the local day of t lies in [window.start, window.end]
InWindow(t) == DateOf(t) \in DateOf(c_first)..DateOf(c_last)

\* the sum of s over the indices I
RECURSIVE SumOver(_, _)
SumOver(s, I) ==
    IF I = {} THEN 0
    ELSE LET i == CHOOSE j \in I : TRUE IN s[i] + SumOver(s, I \ {i})

\* the sum of a sequence of counts
SumSeq(s) == SumOver(s, {i \in DOMAIN s : s[i] # 0})

\* C1: the counts count_commits_per_day returns sum to the number of timestamps
\* whose local day lies in [window.start, window.end], both end days included.
C1_SumIsInWindowCount ==
    (pc = "normalize") =>
        SumSeq(commits) =
            Cardinality({i \in DOMAIN commit_days : InWindow(commit_days[i])})

\* C2: a timestamp whose day is before window.start or after window.end is
\* dropped: the buckets are those of the in-window timestamps alone, and no
\* index outside the Vec is accessed.
C2_OutOfWindowDropped ==
    /\ fault # "index out of bounds"
    /\ (pc = "normalize") =>
          commits = count_commits_per_day(SelectSeq(commit_days, InWindow),
                                          c_first, DateOf(c_last)).ret

\* C3: when every count is zero, normalize_commits returns No for every day
\* and raises no fault.
C3_AllZeroIsNo ==
    (pc = "display_first" /\ \A i \in DOMAIN commits : commits[i] = 0) =>
        /\ fault = "none"
        /\ Len(freqs) = Len(commits)
        /\ \A i \in DOMAIN freqs : freqs[i] = "No"

\* C4: with max > 0, a count v maps to No when v = 0, Low when 0 < 4v < max,
\* Mid when max <= 4v < 2max, High when 2max <= 4v < 3max, VeryHigh when
\* 4v >= 3max; the levels keep the length and the order of the counts.
C4_Thresholds ==
    (pc = "display_first" /\ MaxOf(commits) > 0) =>
        /\ Len(freqs) = Len(commits)
        /\ \A i \in DOMAIN commits :
              LET v == commits[i]
                  max == MaxOf(commits)
              IN  /\ (freqs[i] = "No") <=> (v = 0)
                  /\ (freqs[i] = "Low") <=> (0 < v /\ 4 * v < max)
                  /\ (freqs[i] = "Mid") <=> (max <= 4 * v /\ 4 * v < 2 * max)
                  /\ (freqs[i] = "High") <=> (2 * max <= 4 * v /\ 4 * v < 3 * max)
                  /\ (freqs[i] = "VeryHigh") <=> (3 * max <= 4 * v)

\* C4's case: a count under a quarter of the maximum, one exactly a quarter, the maximum
C4_Witness ==
    /\ pc = "display_first"
    /\ commits = <<1, 2, 8>>
    /\ freqs = <<"Low", "Mid", "VeryHigh">>

\* C5: the start first_day returns is a Sunday (weekday index 0 counting from
\* Sunday), at midnight, and start <= end.
C5_StartIsSunday ==
    /\ (pc = "count_today") =>
          SundayIndex(DateOf(c_first)) = 0 /\ SecOf(c_first) = 0
    /\ (pc = "normalize") => c_first <= c_last
    /\ (pc = "display_last") =>
          SundayIndex(DateOf(d_first)) = 0 /\ SecOf(d_first) = 0

\* C5's case: the day one year ago is itself a Sunday, and first_day has returned
C5_Witness ==
    /\ pc = "count_today"
    /\ SundayIndex(DateOf(OneYearAgo(reads[1]))) = 0
    /\ c_first = OneYearAgo(reads[1]) - 7 * SecsPerDay

\* C6: first_day returns a start for every current date, 29 February included.
C6_FirstDayNeverPanics == fault # "invalid date"

\* count_commits_per_day read the clock twice on the same local date
OneCurrentDate == Len(reads) >= 2 /\ reads[1] = reads[2]

\* C7 as stated: for every current date the number of buckets is in 365..372.
C7_Length365To372 ==
    (pc = "normalize" /\ OneCurrentDate) =>
        /\ Len(commits) = (DateOf(c_last) - DateOf(c_first)) + 1
        /\ Len(commits) \in 365..372

\* C7, amended: for every current date the number of buckets,
\* (end - start).days + 1, is in 367..374.
C7_Length367To374 ==
    (pc = "normalize" /\ OneCurrentDate) =>
        /\ Len(commits) = (DateOf(c_last) - DateOf(c_first)) + 1
        /\ Len(commits) \in 367..374

\* C7's case: a window of 374 days
C7_Witness == pc = "normalize" /\ OneCurrentDate /\ Len(commits) = 374

\* C8: a timestamp on a day d of [window.start, window.end] increments the
\* bucket offset_from_start(d), whose row index mod 7 is d's weekday index
\* counting from Sunday and whose column index div 7 is offset_from_start(d) div 7.
C8_IndexIsOffset ==
    (pc = "normalize") =>
        \A i \in DOMAIN commit_days :
            LET d == DateOf(commit_days[i])
                offset == d - DateOf(c_first)
                index == BucketIndex(c_last, c_len, commit_days[i])
            IN  InWindow(commit_days[i]) =>
                    /\ index = offset
                    /\ index % 7 = SundayIndex(d)
                    /\ index \div 7 = offset \div 7

\* the cells <<weekday, j>> of the printed rows
PrintedCells == {c \in (0..6) \X (1..weeks) : c[2] <= Len(rows[c[1]])}

\* C9: the week count is the length of freqs over 7, rounded up; every index
\* of freqs is printed exactly once, cell (weekday, week) showing index
\* weekday + week*7; the cells skipped are all in the last week column.
C9_GridShowsEveryLevel ==
    (pc = "done") =>
        /\ days = Len(freqs)
        /\ 7 * (weeks - 1) < Len(freqs) /\ Len(freqs) <= 7 * weeks
        /\ {rows[c[1]][c[2]].index : c \in PrintedCells} = 0..(Len(freqs) - 1)
        /\ Cardinality(PrintedCells) = Len(freqs)
        /\ \A c \in PrintedCells :
              rows[c[1]][c[2]].index = c[1] + rows[c[1]][c[2]].week * 7
        /\ \A c \in skipped : c[2] = weeks - 1

\* C10: 4 - ceil(start.day / 7) is in 0..3, so the unsigned subtraction of
\* line 147 never underflows.
C10_PadInRange ==
    /\ fault \notin {"attempt to subtract with overflow", "capacity overflow"}
    /\ (pc \in {"grid", "done"}) => pad \in 0..3

====
